---- MODULE Spec2Model ----
(* threading.c: main() creates num_threads POSIX threads running            *)
(* thread_func(), each printing five "running" lines and one "finished"     *)
(* line, joins them in handle order and returns.  One action per statement  *)
(* of main() and of thread_func().  stdout is kept as the lines of each     *)
(* writer in the order it wrote them, and with each line of main the number *)
(* of lines every worker had written before it; the order between lines of  *)
(* two different workers is not kept, it is any order the steps allow.      *)
EXTENDS Integers, Sequences, FiniteSets, TLC

(* ---------------- bounds and program constants ---------------- *)

\* largest worker count explored (num_threads, line 22, is drawn from 0..MaxCount)
MaxCount == 2

\* for (uint8_t i = 0; i < 5; i++)
Iterations == 5

\* uint16_t and uint8_t arithmetic wraps at these moduli
W16 == 65536
W8 == 256

\* contents of a slot of the variable-length arrays before it is assigned
Uninit == -1

\* values a read of dead or unassigned uint16_t storage is sampled from
Garbage == {0, W16 - 1}

\* the five texts the program writes to stdout
CreatingThreads == "Creating threads"
ThreadsCreated == "main(): threads created, waiting for finish..."
AllFinished == "All threads finished"
ThreadRunning == "Thread: %d running"
ThreadFinished == "Thread: %d finished"

VARIABLES
    num_threads,  \* uint16_t num_threads
    pc,           \* main(): the line it is at, "returned", or "exited"
    thread_num,   \* main(): creation loop counter
    join_num,     \* main(): join loop counter
    order,        \* the slot of threads joined at each value of join_num
    thread_id,    \* uint16_t thread_id[num_threads]
    threads,      \* pthread_t threads[num_threads]: the worker a handle names
    ret,          \* the set holding main()'s return value, empty before it returns
    mout,         \* stdout, main's lines: sequence of [fmt, arg, seen]
    wout,         \* stdout, per worker: sequence of its [fmt, arg] lines
    err,          \* stderr: sequence of diagnostics
    wpc,          \* per worker: "none", "l9", "l11", "l13", "l16", "l17", "done"
    arg,          \* per worker: the slot of thread_id its void* arg points to
    tnum,         \* per worker: local uint16_t thread_num of thread_func
    iter,         \* per worker: local uint8_t i of thread_func
    joins         \* per worker: number of pthread_join calls on it that returned

vars == <<num_threads, order, pc, thread_num, join_num, thread_id, threads, ret, mout,
          wout, err, wpc, arg, tnum, iter, joins>>

mainVars == <<num_threads, order, pc, thread_num, join_num, thread_id, threads, ret, mout, err, joins>>
workerVars == <<wpc, arg, tnum, iter, wout>>

\* indices of the two arrays, which are also the workers' spawn indices
Slots == 0 .. (num_threads - 1)

\* the number of lines each worker has written to stdout so far
Written == [w \in Slots |-> Len(wout[w])]

\* printf by main: the line goes to stdout after everything written so far
MainLine(fmt) == [fmt |-> fmt, arg |-> 0, seen |-> Written]
MainPrintf(fmt) == Append(mout, MainLine(fmt))

\* printf("... %d ...", n) by worker w: the line goes after w's earlier lines
WorkerLine(fmt, n) == [fmt |-> fmt, arg |-> n]
WorkerPrintf(w, fmt, n) == [wout EXCEPT ![w] = Append(@, WorkerLine(fmt, n))]

\* main()'s stack frame (holding both arrays) exists until main returns
FrameLive == pc \notin {"returned", "exited"}

\* the process (and with it every thread) exists until exit() completes
ProcessLive == pc # "exited"

\* what *(uint16_t*)arg can yield for slot s
Deref(s) ==
    IF FrameLive /\ thread_id[s] # Uninit
    THEN {thread_id[s]}
    ELSE Garbage \cup (IF thread_id[s] # Uninit THEN {thread_id[s]} ELSE {})

\* line 41 indexes threads with join_num itself: slot 0 first, then 1, ...
HandleOrder == [s \in Slots |-> s]

\* everything but num_threads and the join order
InitRest ==
    /\ pc = "l25"
    /\ thread_num = 0
    /\ join_num = 0
    /\ thread_id = [s \in Slots |-> Uninit]
    /\ threads = [s \in Slots |-> Uninit]
    /\ ret = {}
    /\ mout = << >>
    /\ wout = [w \in Slots |-> << >>]
    /\ err = << >>
    /\ wpc = [w \in Slots |-> "none"]
    /\ arg = [w \in Slots |-> Uninit]
    /\ tnum = [w \in Slots |-> Uninit]
    /\ iter = [w \in Slots |-> Uninit]
    /\ joins = [s \in Slots |-> 0]

Init ==
    /\ num_threads \in 0 .. MaxCount
    /\ order = HandleOrder
    /\ InitRest

(* ---------------- main() ---------------- *)

\* line 25, and the initialisation of the creation loop
MainStart ==
    /\ pc = "l25"
    /\ mout' = MainPrintf(CreatingThreads)
    /\ thread_num' = 0
    /\ pc' = "l27"
    /\ UNCHANGED <<num_threads, order, join_num, thread_id, threads, ret, err, joins, workerVars>>

\* variant: the creation loop runs once too often (<= for <)
CreateCondInclusive == thread_num <= num_threads

\* variant: the creation loop stops one spawn short
CreateCondShort == thread_num + 1 < num_threads

\* the loop condition of line 27
CreateCond == thread_num < num_threads

\* variant: the identifier is the 0-based index (the + 1 is missing)
MainAssignIdZeroBased ==
    /\ pc = "l27"
    /\ CreateCond
    /\ thread_id' = [thread_id EXCEPT ![thread_num] = thread_num % W16]
    /\ pc' = "l30"
    /\ UNCHANGED <<num_threads, order, thread_num, join_num, threads, ret, mout, err, joins, workerVars>>

\* lines 27 (test true) and 29
MainAssignId ==
    /\ pc = "l27"
    /\ CreateCond
    /\ thread_id' = [thread_id EXCEPT ![thread_num] = (thread_num + 1) % W16]
    /\ pc' = "l30"
    /\ UNCHANGED <<num_threads, order, thread_num, join_num, threads, ret, mout, err, joins, workerVars>>

\* line 30, pthread_create returns 0: the thread exists and will run
\* thread_func(&thread_id[thread_num]); then thread_num++
MainCreateOk ==
    /\ pc = "l30"
    /\ threads' = [threads EXCEPT ![thread_num] = thread_num]
    /\ wpc' = [wpc EXCEPT ![thread_num] = "l9"]
    /\ arg' = [arg EXCEPT ![thread_num] = thread_num]
    /\ thread_num' = (thread_num + 1) % W16
    /\ pc' = "l27"
    /\ UNCHANGED <<num_threads, order, join_num, thread_id, ret, mout, err, joins, tnum, iter, wout>>

\* variant: on failure the threads already started are cancelled
MainCreateFailCancel ==
    /\ pc = "l30"
    /\ pc' = "l32"
    /\ wpc' = [w \in Slots |-> IF wpc[w] = "none" THEN "none" ELSE "done"]
    /\ UNCHANGED <<num_threads, order, thread_num, join_num, thread_id, threads, ret, mout, err,
                   joins, arg, tnum, iter, wout>>

\* line 30, pthread_create returns an error: no thread, handle left unset
MainCreateFail ==
    /\ pc = "l30"
    /\ pc' = "l32"
    /\ UNCHANGED <<num_threads, order, thread_num, join_num, thread_id, threads, ret, mout, err,
                   joins, workerVars>>

\* variant: the error is reported but the loop goes on (the return is missing)
MainPerrorNoReturn ==
    /\ pc = "l32"
    /\ err' = Append(err, "error creating thread")
    /\ thread_num' = (thread_num + 1) % W16
    /\ pc' = "l27"
    /\ UNCHANGED <<num_threads, order, join_num, thread_id, threads, ret, mout,
                   joins, workerVars>>

\* line 32
MainPerror ==
    /\ pc = "l32"
    /\ err' = Append(err, "error creating thread")
    /\ pc' = "l33"
    /\ UNCHANGED <<num_threads, order, thread_num, join_num, thread_id, threads, ret, mout,
                   joins, workerVars>>

\* line 33
MainReturnErr ==
    /\ pc = "l33"
    /\ ret' = {-1}
    /\ pc' = "returned"
    /\ UNCHANGED <<num_threads, order, thread_num, join_num, thread_id, threads, mout, err,
                   joins, workerVars>>

\* lines 27 (test false), 37, and the initialisation of the join loop
MainCreated ==
    /\ pc = "l27"
    /\ ~CreateCond
    /\ mout' = MainPrintf(ThreadsCreated)
    /\ join_num' = 0
    /\ pc' = "l39"
    /\ UNCHANGED <<num_threads, order, thread_num, thread_id, threads, ret, err, joins, workerVars>>

\* variant: the join loop stops one handle short
JoinCondShort == join_num + 1 < num_threads

\* the loop condition of line 39
JoinCond == join_num < num_threads

\* lines 39 (test true) and 41: pthread_join is called and blocks
MainJoinCall ==
    /\ pc = "l39"
    /\ JoinCond
    /\ pc' = "l41"
    /\ UNCHANGED <<num_threads, order, thread_num, join_num, thread_id, threads, ret, mout, err,
                   joins, workerVars>>

\* variant: every join waits on the first handle, threads[0]
JoinReadyFirstHandle == threads[0] \in Slots /\ wpc[threads[0]] = "done"

\* variant: the join waits on the handle after the intended one
JoinReadyNextHandle ==
    /\ join_num + 1 \in Slots
    /\ threads[join_num + 1] \in Slots
    /\ wpc[threads[join_num + 1]] = "done"

\* variant: the handles are joined from the last slot down
JoinTargetReverse == threads[num_threads - 1 - join_num]

\* variant: every pass of the loop joins threads[0]
JoinTargetFirst == threads[0]

\* the thread pthread_join(threads[join_num]) waits for has terminated
JoinTarget == threads[order[join_num]]
JoinReady == JoinTarget \in Slots /\ wpc[JoinTarget] = "done"

\* line 41, pthread_join returns; then join_num++
MainJoinReturn ==
    /\ pc = "l41"
    /\ JoinReady
    /\ joins' = [joins EXCEPT ![JoinTarget] = @ + 1]
    /\ join_num' = (join_num + 1) % W16
    /\ pc' = "l39"
    /\ UNCHANGED <<num_threads, order, thread_num, thread_id, threads, ret, mout, err, workerVars>>

\* lines 39 (test false) and 44
MainAllFinished ==
    /\ pc = "l39"
    /\ ~JoinCond
    /\ mout' = MainPrintf(AllFinished)
    /\ pc' = "l45"
    /\ UNCHANGED <<num_threads, order, thread_num, join_num, thread_id, threads, ret, err,
                   joins, workerVars>>

\* line 45
MainReturnOk ==
    /\ pc = "l45"
    /\ ret' = {0}
    /\ pc' = "returned"
    /\ UNCHANGED <<num_threads, order, thread_num, join_num, thread_id, threads, mout, err,
                   joins, workerVars>>

\* returning from main() calls exit(): the process and all its threads end
ProcessExit ==
    /\ pc = "returned"
    /\ pc' = "exited"
    /\ UNCHANGED <<num_threads, order, thread_num, join_num, thread_id, threads, ret, mout, err,
                   joins, workerVars>>

Main ==
    \/ MainStart
    \/ MainAssignId
    \/ MainCreateOk
    \/ MainCreateFail
    \/ MainPerror
    \/ MainReturnErr
    \/ MainCreated
    \/ MainJoinCall
    \/ MainJoinReturn
    \/ MainAllFinished
    \/ MainReturnOk
    \/ ProcessExit

(* ---------------- thread_func() ---------------- *)

\* line 9, and the initialisation i = 0 of the loop
WorkerStart(w) ==
    /\ ProcessLive
    /\ wpc[w] = "l9"
    /\ \E v \in Deref(arg[w]) : tnum' = [tnum EXCEPT ![w] = v]
    /\ iter' = [iter EXCEPT ![w] = 0]
    /\ wpc' = [wpc EXCEPT ![w] = "l11"]
    /\ UNCHANGED <<mainVars, arg, wout>>

\* variant: the loop runs once too often (<= for <)
LoopCondInclusive(i) == i <= Iterations

\* the loop condition of line 11
LoopCond(i) == i < Iterations

\* line 11, the test: into the body or out of the loop
WorkerLoopTest(w) ==
    /\ ProcessLive
    /\ wpc[w] = "l11"
    /\ wpc' = [wpc EXCEPT ![w] = IF LoopCond(iter[w]) THEN "l13" ELSE "l16"]
    /\ UNCHANGED <<mainVars, arg, tnum, iter, wout>>

\* variant: a worker writes only once the workers spawned before it have
\* written their completion lines (the threads run one after another)
WorkerBodyInTurn(w) ==
    /\ ProcessLive
    /\ wpc[w] = "l13"
    /\ \A v \in Slots : v < w => wpc[v] \in {"l17", "done"}
    /\ wout' = WorkerPrintf(w, ThreadRunning, tnum[w])
    /\ iter' = [iter EXCEPT ![w] = (@ + 1) % W8]
    /\ wpc' = [wpc EXCEPT ![w] = "l11"]
    /\ UNCHANGED <<mainVars, arg, tnum>>

\* variant: the loop counter i is one object shared by all threads
WorkerBodySharedCounter(w) ==
    /\ ProcessLive
    /\ wpc[w] = "l13"
    /\ wout' = WorkerPrintf(w, ThreadRunning, tnum[w])
    /\ iter' = [v \in Slots |-> IF iter[v] = Uninit THEN Uninit ELSE (iter[w] + 1) % W8]
    /\ wpc' = [wpc EXCEPT ![w] = "l11"]
    /\ UNCHANGED <<mainVars, arg, tnum>>

\* lines 13-14 and the i++ of line 11
WorkerBody(w) ==
    /\ ProcessLive
    /\ wpc[w] = "l13"
    /\ wout' = WorkerPrintf(w, ThreadRunning, tnum[w])
    /\ iter' = [iter EXCEPT ![w] = (@ + 1) % W8]
    /\ wpc' = [wpc EXCEPT ![w] = "l11"]
    /\ UNCHANGED <<mainVars, arg, tnum>>

\* line 16
WorkerFinish(w) ==
    /\ ProcessLive
    /\ wpc[w] = "l16"
    /\ wout' = WorkerPrintf(w, ThreadFinished, tnum[w])
    /\ wpc' = [wpc EXCEPT ![w] = "l17"]
    /\ UNCHANGED <<mainVars, arg, tnum, iter>>

\* line 17: the thread terminates and becomes joinable-complete
WorkerReturn(w) ==
    /\ ProcessLive
    /\ wpc[w] = "l17"
    /\ wpc' = [wpc EXCEPT ![w] = "done"]
    /\ UNCHANGED <<mainVars, arg, tnum, iter, wout>>

Worker(w) ==
    \/ WorkerStart(w)
    \/ WorkerLoopTest(w)
    \/ WorkerBody(w)
    \/ WorkerFinish(w)
    \/ WorkerReturn(w)

Next ==
    \/ Main
    \/ \E w \in Slots : Worker(w)

Spec == Init /\ [][Next]_vars

\* every thread that can run is eventually scheduled
FairSpec == Spec /\ WF_vars(Main) /\ \A w \in 0 .. (MaxCount - 1) : WF_vars(w \in Slots /\ Worker(w))

\* the launcher of spec.md 4.1 step 3 with the handles waited on in any
\* order: the same program with any permutation of the slots in place of
\* HandleOrder
JoinOrders == {f \in [Slots -> Slots] : \A a, b \in Slots : a # b => f[a] # f[b]}

PermInit ==
    /\ num_threads \in 0 .. MaxCount
    /\ order \in JoinOrders
    /\ InitRest

PermSpec == PermInit /\ [][Next]_vars

TypeOK ==
    /\ num_threads \in 0 .. MaxCount
    /\ pc \in {"l25", "l27", "l30", "l32", "l33", "l39", "l41", "l45", "returned", "exited"}
    /\ thread_num \in 0 .. num_threads
    /\ join_num \in 0 .. num_threads
    /\ ret \in {{}, {0}, {-1}}
    /\ \A w \in Slots : wpc[w] \in {"none", "l9", "l11", "l13", "l16", "l17", "done"}

(* ---------------- observations on the output ---------------- *)

\* positions of main's lines holding format f
MainLines(f) == {k \in 1 .. Len(mout) : mout[k].fmt = f}

\* positions of worker w's lines holding format f
WorkerLines(w, f) == {k \in 1 .. Len(wout[w]) : wout[w][k].fmt = f}

\* the texts main has written, in order
MainTexts == [k \in 1 .. Len(mout) |-> mout[k].fmt]

\* line k of main is the last line of stdout: no worker has written after it
LastOfOutput(k) == k = Len(mout) /\ mout[k].seen = Written

\* worker w's line j is on stdout before main's line k
Before(w, j, k) == j <= mout[k].seen[w]

\* a pthread_create call has failed in this run
SpawnFailed == pc = "l32" \/ Len(err) > 0

\* main() has returned on the path on which no spawn failed
RunSucceeded == pc \in {"returned", "exited"} /\ ~SpawnFailed

\* worker w has emitted its completion line
Finished(w) == wpc[w] \in {"l17", "done"}

(* ---------------- C1 ---------------- *)

\* C1: "All threads finished" is written only when every worker has already
\* written its "finished" line (and so is Finished), and nothing is ever
\* written after it: it is the last line of stdout.
C1_AllFinishedAfterWorkers ==
    \A k \in MainLines(AllFinished) :
        /\ LastOfOutput(k)
        /\ \A w \in Slots :
            /\ Finished(w)
            /\ \E j \in WorkerLines(w, ThreadFinished) : Before(w, j, k)

\* a finished two-worker run whose last line is "All threads finished"
C1_Witness ==
    /\ num_threads = 2
    /\ pc = "exited"
    /\ Len(mout) = 3
    /\ mout[3].fmt = AllFinished
    /\ LastOfOutput(3)

(* ---------------- C2 ---------------- *)

\* the lines of one complete worker carrying identifier n
CompleteLog(n) ==
    [k \in 1 .. 6 |-> WorkerLine(IF k <= 5 THEN ThreadRunning ELSE ThreadFinished, n)]

\* the worker output of a complete run: for each identifier n in 1..count
\* there is exactly one worker whose lines carry n, and every worker's lines
\* are exactly 5 "running" lines followed by one "finished" line
WorkerLinesComplete ==
    /\ \A n \in 1 .. num_threads :
         Cardinality({w \in Slots : wout[w] = CompleteLog(n)}) = 1
    /\ \A w \in Slots : \E n \in 1 .. num_threads : wout[w] = CompleteLog(n)

\* C2 as stated: every run of launch(count), count >= 0, returns success with
\* the complete worker output.
C2_Original ==
    pc \in {"returned", "exited"} => ret = {0} /\ WorkerLinesComplete

\* C2 as amended: every run of launch(count), count >= 0, in which every
\* spawn succeeds returns success (0) with the complete worker output.
C2_SuccessfulRunOutput ==
    RunSucceeded => ret = {0} /\ WorkerLinesComplete

\* a successful two-worker run has returned, with 10 "running" lines written
C2_Witness ==
    /\ num_threads = 2
    /\ RunSucceeded
    /\ Cardinality(WorkerLines(0, ThreadRunning)) + Cardinality(WorkerLines(1, ThreadRunning)) = 10

(* ---------------- C3 ---------------- *)

\* C3: once the spawn of index thread_num has failed, main only reports and
\* returns: no worker of index >= thread_num exists, no join is called or
\* returns, neither later progress line is written, exactly one diagnostic is
\* on stderr from line 32 on, and the return value is -1.  The return value
\* is 0 only when no spawn failed, every worker was started and every handle
\* was joined.
C3_SpawnFailureAborts ==
    /\ SpawnFailed =>
        /\ pc \in {"l32", "l33", "returned", "exited"}
        /\ \A w \in Slots : w >= thread_num => wpc[w] = "none"
        /\ join_num = 0
        /\ \A s \in Slots : joins[s] = 0
        /\ MainLines(ThreadsCreated) = {}
        /\ MainLines(AllFinished) = {}
        /\ (pc # "l32" => Len(err) = 1)
        /\ (pc \in {"returned", "exited"} => ret = {-1})
    /\ ret = {0} =>
        /\ ~SpawnFailed
        /\ err = << >>
        /\ \A s \in Slots : wpc[s] = "done" /\ joins[s] = 1

\* the second spawn failed after the first succeeded, and the process exited
C3_Witness ==
    /\ num_threads = 2
    /\ thread_num = 1
    /\ pc = "exited"
    /\ ret = {-1}
    /\ wpc[0] # "none"

(* ---------------- C4 ---------------- *)

\* worker w has been started and has not yet terminated
Started(w) == wpc[w] \notin {"none", "done"}

\* C4: on the spawn-failure path no step of main changes any worker's state
\* (no cancel) or performs a join, and while the process exists every worker
\* that was started and has not terminated can still take its next step.
C4_StartedWorkersLeftRunning ==
    /\ [][SpawnFailed' /\ pc' # pc =>
            /\ UNCHANGED workerVars
            /\ pc' # "l41"
            /\ UNCHANGED <<joins, join_num>>]_vars
    /\ [](SpawnFailed /\ ProcessLive =>
            \A w \in Slots : Started(w) => ENABLED Worker(w))

\* the second spawn failed, the error was reported and main returned, while
\* the first worker is still inside its loop
C4_Witness ==
    /\ num_threads = 2
    /\ thread_num = 1
    /\ Len(err) = 1
    /\ pc = "returned"
    /\ wpc[0] = "l13"
    /\ iter[0] = 2

(* ---------------- C5 ---------------- *)

\* C5: under fair scheduling a run in which no spawn fails ends with every
\* worker terminated, every handle joined once and the process exited with 0.
C5_SuccessfulRunTerminates ==
    ([] ~SpawnFailed) =>
        <>(/\ pc = "exited"
           /\ ret = {0}
           /\ \A w \in Slots : wpc[w] = "done" /\ joins[w] = 1)

\* a two-worker run has exited with 0 after both workers did their 5 iterations
C5_Witness ==
    /\ num_threads = 2
    /\ pc = "exited"
    /\ ret = {0}
    /\ \A w \in Slots : wpc[w] = "done" /\ iter[w] = 5

(* ---------------- C6 ---------------- *)

\* C6: slot i of thread_id, once assigned, holds i + 1 (so the identifiers are
\* distinct and fill 1..count), the worker spawned at index i is handed slot
\* i, and every line a worker writes carries the identifier i + 1.
C6_IdentifiersCarried ==
    /\ \A s \in Slots : thread_id[s] # Uninit => thread_id[s] = s + 1
    /\ \A w \in Slots : wpc[w] # "none" => arg[w] = w /\ thread_id[w] = w + 1
    /\ \A w \in Slots : \A k \in 1 .. Len(wout[w]) : wout[w][k].arg = w + 1

(* ---------------- C7 ---------------- *)

\* the three progress lines in the order of the source
ProgressTexts == <<CreatingThreads, ThreadsCreated, AllFinished>>

\* C7: main's lines are a prefix of the three progress lines (each at most
\* once, in order), all three in a successful run; "Creating threads" is the
\* first line of stdout and is there before any worker exists; "main():
\* threads created..." is written only when all count workers have been
\* spawned and is there whenever a join has been called; "All threads
\* finished" is written only when every join has returned.
C7_ProgressLinesInOrder ==
    /\ Len(mout) <= 3
    /\ MainTexts = SubSeq(ProgressTexts, 1, Len(mout))
    /\ (RunSucceeded => Len(mout) = 3)
    /\ (Len(mout) >= 1 => \A w \in Slots : mout[1].seen[w] = 0)
    /\ ((\E w \in Slots : wpc[w] # "none") => Len(mout) >= 1)
    /\ (Len(mout) >= 2 =>
            /\ thread_num = num_threads
            /\ \A w \in Slots : wpc[w] # "none")
    /\ (pc = "l41" \/ join_num > 0 => Len(mout) >= 2)
    /\ (Len(mout) >= 3 =>
            /\ join_num = num_threads
            /\ \A s \in Slots : joins[s] = 1)

\* a successful two-worker run with a worker line before and a worker line
\* after "main(): threads created, waiting for finish..."
C7_Witness ==
    /\ num_threads = 2
    /\ RunSucceeded
    /\ \E w \in Slots : mout[2].seen[w] > 0
    /\ \E w \in Slots : mout[2].seen[w] < Len(wout[w])

(* ---------------- C8 ---------------- *)

\* C8: with num_threads = 0 main never reaches pthread_create or pthread_join,
\* both loop counters stay 0, nothing goes to stderr, no worker line exists,
\* and once main is past line 44 stdout is exactly the three progress lines
\* in order; it returns 0.
C8_ZeroWorkers ==
    num_threads = 0 =>
        /\ pc \notin {"l30", "l32", "l33", "l41"}
        /\ thread_num = 0
        /\ join_num = 0
        /\ err = << >>
        /\ DOMAIN wout = {}
        /\ (pc \in {"l45", "returned", "exited"} => MainTexts = ProgressTexts)
        /\ (pc \in {"returned", "exited"} => ret = {0})

\* the zero-worker run has exited
C8_Witness ==
    /\ num_threads = 0
    /\ pc = "exited"
    /\ Len(mout) = 3

(* ---------------- C9 ---------------- *)

\* slots of thread_id that have been assigned, slots of threads that hold a handle
AssignedIds == {s \in Slots : thread_id[s] # Uninit}
CreatedHandles == {s \in Slots : threads[s] # Uninit}

\* C9: while main is in its join phase (from line 37 to line 44) exactly
\* num_threads identifiers are assigned and exactly num_threads handles are
\* created, and the handle in slot s names the worker that was given the
\* identifier in slot s.
C9_CountsAgree ==
    pc \in {"l39", "l41", "l45"} =>
        /\ Cardinality(AssignedIds) = num_threads
        /\ Cardinality(CreatedHandles) = num_threads
        /\ \A s \in Slots : threads[s] \in Slots /\ arg[threads[s]] = s
        /\ \A s, t \in Slots : s # t => threads[s] # threads[t] /\ thread_id[s] # thread_id[t]

\* main is blocked in a join with two workers
C9_Witness ==
    /\ num_threads = 2
    /\ pc = "l41"
    /\ Cardinality(CreatedHandles) = 2

(* ---------------- C10 ---------------- *)

\* the steps of one worker: Created (l9) -> loop test (l11) <-> body (l13),
\* loop test -> completion line (l16) -> Finished (l17, then terminated)
WorkerTransition(w) ==
    \/ wpc[w] = "none" /\ wpc'[w] = "l9" /\ iter'[w] = iter[w]
    \/ wpc[w] = "l9" /\ wpc'[w] = "l11" /\ iter'[w] = 0
    \/ wpc[w] = "l11" /\ wpc'[w] = "l13" /\ iter'[w] = iter[w] /\ iter[w] \in 0 .. 4
    \/ wpc[w] = "l13" /\ wpc'[w] = "l11" /\ iter'[w] = iter[w] + 1
    \/ wpc[w] = "l11" /\ wpc'[w] = "l16" /\ iter'[w] = iter[w] /\ iter[w] = 5
    \/ wpc[w] = "l16" /\ wpc'[w] = "l17" /\ iter'[w] = iter[w]
    \/ wpc[w] = "l17" /\ wpc'[w] = "done" /\ iter'[w] = iter[w]

\* the step writes a line of worker w to stdout
Emits(w) == wout'[w] # wout[w]

\* C10: a worker's state changes only along Created -> Running -> Finished;
\* the loop body runs only with i in 0..4 and each run of it adds one to i;
\* the completion line is written only with i = 5, after exactly 5 "running"
\* lines; a Finished worker keeps i, writes nothing more, and only terminates.
C10_WorkerStateMachine ==
    [][\A w \in Slots :
        /\ (<<wpc[w], iter[w]>> # <<wpc'[w], iter'[w]>> => WorkerTransition(w))
        /\ (wpc[w] = "l13" => iter[w] \in 0 .. 4)
        /\ (wpc'[w] = "l17" /\ wpc[w] # "l17" =>
                iter[w] = 5 /\ Cardinality(WorkerLines(w, ThreadRunning)) = 5)
        /\ (Finished(w) => Finished(w)' /\ iter'[w] = iter[w] /\ ~Emits(w))
        /\ (Emits(w) => wpc[w] \in {"l13", "l16"})]_vars

\* one worker has terminated after its fifth iteration while the other is
\* in its last iteration
C10_Witness ==
    /\ num_threads = 2
    /\ wpc[1] = "done"
    /\ iter[1] = 5
    /\ wpc[0] = "l13"
    /\ iter[0] = 4

(* ---------------- C12 ---------------- *)

\* the join of the handle in slot s has been called
JoinBegun(s) == join_num > s \/ (join_num = s /\ pc = "l41")

\* C12: pthread_join returns only for the handle in slot join_num, only when
\* the worker it names has terminated, and only after the joins of all lower
\* slots have returned; the join of slot s + 1 is called only after the join
\* of slot s has returned.
C12_JoinsInHandleOrder ==
    /\ [][\A s \in Slots : joins'[s] # joins[s] =>
            /\ pc = "l41"
            /\ s = join_num
            /\ threads[s] = s
            /\ wpc[s] = "done"
            /\ joins'[s] = joins[s] + 1
            /\ \A t \in Slots : t < s => joins[t] = 1]_vars
    /\ [](\A s \in Slots :
            /\ (joins[s] = 1 => Finished(s))
            /\ (s + 1 \in Slots /\ JoinBegun(s + 1) => joins[s] = 1))

\* main is blocked in the join of the first handle while the second worker
\* has already terminated
C12_Witness ==
    /\ num_threads = 2
    /\ pc = "l41"
    /\ join_num = 0
    /\ wpc[0] = "l13"
    /\ wpc[1] = "done"

(* ---------------- C13 ---------------- *)

\* main is in its join loop
JoinPhase == pc \in {"l39", "l41"}

\* every worker has terminated
AllDone == \A w \in Slots : wpc[w] = "done"

\* how far main is in its join loop
JoinProgress == 2 * join_num + (IF pc = "l41" THEN 1 ELSE 0)

\* C13: whatever the order in which the handles are joined, the join loop
\* cannot be told from outside: a step of main inside the loop changes
\* neither stdout, stderr, the return value nor any worker, and moves the
\* loop forward; main leaves the loop only when every worker has terminated,
\* by writing "All threads finished" after all their lines; when every
\* worker has terminated main is not blocked; no worker is blocked by where
\* main is in the loop; and a run without spawn failure returns 0 with every
\* handle joined once.  None of this depends on the order, so every order
\* gives the same output sequences and the same result as handle order.
C13_JoinOrderUnobservable ==
    /\ [][JoinPhase /\ JoinPhase' /\ <<pc, join_num>>' # <<pc, join_num>> =>
            /\ UNCHANGED <<mout, err, ret, workerVars>>
            /\ JoinProgress' = JoinProgress + 1]_vars
    /\ [][JoinPhase /\ ~JoinPhase' =>
            /\ AllDone
            /\ mout' = Append(mout, [fmt |-> AllFinished, arg |-> 0, seen |-> Written])
            /\ UNCHANGED <<err, ret, workerVars>>]_vars
    /\ [](JoinPhase /\ AllDone => ENABLED Main)
    /\ [](JoinPhase => \A w \in Slots : Started(w) => ENABLED Worker(w))
    /\ [](RunSucceeded => ret = {0} /\ \A s \in Slots : joins[s] = 1)

\* a run that joins the second handle first has exited with 0
C13_Witness ==
    /\ num_threads = 2
    /\ order[0] = 1
    /\ order[1] = 0
    /\ pc = "exited"
    /\ ret = {0}
    /\ Len(mout) = 3

(* ---------------- C14 ---------------- *)

\* worker w is at a printf: its next step writes a line
AtPrintf(w) == wpc[w] \in {"l13", "l16"}

\* the step of worker w that writes its next line
WorkerEmit(w) == WorkerBody(w) \/ WorkerFinish(w)

\* C14: nothing orders the lines of two workers, or a worker's line and
\* "main(): threads created...": whenever two distinct workers are both at a
\* printf, either of them can write next, and whenever a worker is at a
\* printf while main is about to write its line 37, either can write next.
C14_NoOrderBetweenWorkers ==
    ProcessLive =>
        /\ \A a, b \in Slots : a # b /\ AtPrintf(a) /\ AtPrintf(b) =>
                ENABLED WorkerEmit(a) /\ ENABLED WorkerEmit(b)
        /\ \A a \in Slots : AtPrintf(a) /\ pc = "l27" /\ ~CreateCond =>
                ENABLED WorkerEmit(a) /\ ENABLED MainCreated

\* the worker spawned second has written all its lines, "finished" included,
\* before the worker spawned first has written any and before main has
\* written "main(): threads created, waiting for finish..."
C14_Witness ==
    /\ num_threads = 2
    /\ Len(wout[1]) = 6
    /\ wout[1][6].fmt = ThreadFinished
    /\ Len(wout[0]) = 0
    /\ Len(mout) = 1

(* ---------------- C15 ---------------- *)

\* the state a worker owns
Own(w) == <<wpc[w], iter[w], tnum[w], wout[w]>>

\* C15: a step that changes the state of a started worker w changes nothing
\* of main (its control state, the identifiers, the handles, its lines),
\* nothing of any other worker and no arg pointer, and leaves w's lines as
\* they were or with one more line carrying w's thread_num; and while the
\* process exists every started worker that has not terminated can step,
\* whatever the other workers' states.
C15_WorkersIndependent ==
    /\ [][\A w \in Slots : wpc[w] # "none" /\ Own(w)' # Own(w) =>
            /\ UNCHANGED mainVars
            /\ UNCHANGED arg
            /\ \A v \in Slots : v # w => Own(v)' = Own(v)
            /\ \/ wout'[w] = wout[w]
               \/ \E f \in {ThreadRunning, ThreadFinished} :
                     wout'[w] = Append(wout[w], WorkerLine(f, tnum[w]))]_vars
    /\ [](ProcessLive => \A w \in Slots : Started(w) => ENABLED Worker(w))

\* the first worker is in its fourth iteration while the second has not yet
\* read its identifier
C15_Witness ==
    /\ num_threads = 2
    /\ wpc[0] = "l13"
    /\ iter[0] = 3
    /\ wpc[1] = "l9"
    /\ pc = "l41"

(* ---------------- C16 ---------------- *)

\* C16: slot s of thread_id is written once, by main at line 29 before worker
\* s exists, with s + 1, and never again; and the thread_num a worker has
\* read from its slot is s + 1.
C16_IdentifierSlotStable ==
    /\ [][\A s \in Slots : thread_id'[s] # thread_id[s] =>
            /\ pc = "l27"
            /\ thread_id[s] = Uninit
            /\ thread_id'[s] = s + 1
            /\ wpc[s] = "none"]_vars
    /\ [](\A w \in Slots : tnum[w] # Uninit => tnum[w] = w + 1)

(* ---------------- C17 ---------------- *)

\* C17: no worker is joined more than once, and a joined worker is one whose
\* handle was created; main is in or past the join loop only when no spawn
\* failed and every handle was created; the handle main is blocked on was
\* created and has not been joined before; after a spawn failure nothing is
\* or has been joined; a successful run has joined every handle once.
C17_JoinsCreatedHandlesOnce ==
    /\ \A s \in Slots :
        /\ joins[s] <= 1
        /\ (joins[s] = 1 => threads[s] = s /\ wpc[s] # "none")
    /\ (pc \in {"l39", "l41", "l45"} =>
            /\ ~SpawnFailed
            /\ \A s \in Slots : threads[s] # Uninit /\ wpc[s] # "none")
    /\ (pc = "l41" =>
            /\ JoinTarget \in Slots
            /\ joins[JoinTarget] = 0
            /\ wpc[JoinTarget] # "none")
    /\ (SpawnFailed => pc # "l41" /\ \A s \in Slots : joins[s] = 0)
    /\ (RunSucceeded => \A s \in Slots : joins[s] = 1)

\* both handles of a two-worker run have been joined, once each
C17_Witness ==
    /\ num_threads = 2
    /\ pc = "l45"
    /\ joins[0] = 1
    /\ joins[1] = 1

====
